---- MODULE Spec2Model ----
(***************************************************************************)
(* State-machine model of the MvsoModel scripts: the input layer           *)
(* (MvsoModel/input.py), the scenario runner (runme.py) and the result     *)
(* comparison helpers (comp.py).                                           *)
(*                                                                         *)
(* Conventions                                                             *)
(*  - A Python str whose characters matter is a sequence of one-character  *)
(*    strings (<<"a", ".", "b">> is 'a.b').                                *)
(*  - Python objects that are shared by reference live in `heap`; a        *)
(*    reference is an index into that sequence.                            *)
(*  - A DataFrame is [kind, multi, index, cols]: `index` is the sequence   *)
(*    of row keys in row order, `multi` says whether the index is a        *)
(*    MultiIndex, `cols` maps a column label to a function row key ->      *)
(*    cell.  A row key is a number whose order is the lexicographic order  *)
(*    of the index tuple it stands for.                                    *)
(*  - An exception is the name of its class; "" means no exception.        *)
(***************************************************************************)
EXTENDS Integers, Sequences, FiniteSets, TLC

VARIABLES
    \* MvsoModel/input.py
    xls,        \* the input workbook on disk: sheet name -> sheet
    heap,       \* object store
    data,       \* dict returned by read_excel: key -> reference
    passed,     \* history: value of every data table when pyomo_model_prep was entered
    prob,       \* model instance: [attrs |-> attribute name -> reference]
    nprep,      \* number of pyomo_model_prep calls so far
    call,       \* the operation performed last and its arguments
    exc,        \* exception raised by the operation performed last
    ret,        \* reference returned by the operation performed last (0: none)
    \* split_columns
    arg_columns,    \* argument columns: list of labels
    arg_sep,        \* argument sep
    split_out,      \* [done, value]: the value returned
    \* runme.py
    scenarios,      \* the list `scenarios` of __main__, as scenario function names
    si,             \* position of the for loop in that list
    rpc,            \* the step run_scenario performs next
    log,            \* history: the steps of the current run_scenario that returned
    written,        \* files the current run_scenario has written to result_dir
    failed,         \* the step of the current run_scenario that raised ("": none)
    validated,      \* history: the process table validate_input was given
    model_input,    \* history: the process table each create_model was given
    \* comp.py
    handles,        \* deduplicate_legend: argument handles
    labels,         \* deduplicate_legend: argument labels
    legend_out,     \* deduplicate_legend: [done, exc, handles, labels]
    directory,      \* compare: the files of the result directory, as a set of names
    result_files,   \* compare_scenarios: result_files
    scenario_names, \* compare_scenarios: scenario_names
    cpc,            \* compare: the step performed next
    search_dir,     \* get_most_recent_entry: the entries of search_dir
    recent_out      \* get_most_recent_entry: [done, exc, entry]

inputVars == <<xls, heap, data, passed, prob, nprep, call, exc, ret>>
splitVars == <<arg_columns, arg_sep, split_out>>
runVars == <<scenarios, si, rpc, log, written, failed, validated, model_input>>
legendVars == <<handles, labels, legend_out>>
compVars == <<directory, result_files, scenario_names, cpc>>
recentVars == <<search_dir, recent_out>>

vars == <<inputVars, splitVars, runVars, legendVars, compVars, recentVars>>

\* the parts of the state an operation of another script leaves alone
IdleInput ==
    /\ xls = <<>> /\ heap = <<>> /\ data = <<>> /\ passed = <<>> /\ prob = <<>>
    /\ nprep = 0 /\ call = <<>> /\ exc = "" /\ ret = 0
IdleSplit == arg_columns = <<>> /\ arg_sep = <<>> /\ split_out = <<>>
IdleRun ==
    /\ scenarios = <<>> /\ si = 0 /\ rpc = "" /\ log = <<>> /\ written = {}
    /\ failed = "" /\ validated = <<>> /\ model_input = <<>>
IdleLegend == handles = <<>> /\ labels = <<>> /\ legend_out = <<>>
IdleCompare ==
    /\ directory = {} /\ result_files = <<>> /\ scenario_names = <<>> /\ cpc = ""
IdleRecent == search_dir = {} /\ recent_out = <<>>

----------------------------------------------------------------------------
(* Bounds *)

\* largest depreciation period (years) in a generated workbook
MaxDep == 2
\* number of pyomo_model_prep calls on one data dict
MaxPrep == 2

----------------------------------------------------------------------------
(* Generic helpers *)

Range(s) == {s[i] : i \in DOMAIN s}

Min(S) == CHOOSE x \in S : \A y \in S : x <= y

RECURSIVE Pow(_, _)
Pow(b, n) == IF n = 0 THEN 1 ELSE b * Pow(b, n - 1)

\* the sequence s with x inserted before the first element greater than x
RECURSIVE Insert(_, _)
Insert(s, x) ==
    IF s = <<>> THEN <<x>>
    ELSE IF x < Head(s) THEN <<x>> \o s
    ELSE <<Head(s)>> \o Insert(Tail(s), x)

\* stable ascending sort of a sequence of numbers
RECURSIVE SortAsc(_)
SortAsc(s) ==
    IF s = <<>> THEN <<>>
    ELSE LET rest == SortAsc(SubSeq(s, 1, Len(s) - 1))
         IN  Insert(rest, s[Len(s)])

\* the elements of s that satisfy Keep, in order
SelectRows(s, keep) == SelectSeq(s, LAMBDA r : r \in keep)

EmptyMap == [k \in {} |-> 0]

\* an object without attributes of its own
NoProb == [attrs |-> EmptyMap]

----------------------------------------------------------------------------
(* Python str operations on character sequences *)

\* str.find: 1-based position of the first occurrence of sep in s, 0 if none
Find(s, sep) ==
    LET hits == {i \in 1..(Len(s) - Len(sep) + 1) :
                    SubSeq(s, i, i + Len(sep) - 1) = sep}
    IN  IF hits = {} THEN 0 ELSE Min(hits)

\* str.split(sep) for a non-empty sep: always at least one part
RECURSIVE split(_, _)
split(s, sep) ==
    LET n == Find(s, sep)
    IN  IF n = 0 THEN <<s>>
        ELSE <<SubSeq(s, 1, n - 1)>> \o split(SubSeq(s, n + Len(sep), Len(s)), sep)

\* sep.join(parts)
RECURSIVE join(_, _)
join(parts, sep) ==
    IF parts = <<>> THEN <<>>
    ELSE IF Len(parts) = 1 THEN parts[1]
    ELSE parts[1] \o sep \o join(Tail(parts), sep)

----------------------------------------------------------------------------
(* pandas objects *)

\* position of the first column labelled c (0: no such column)
ColPos(df, c) ==
    LET hits == {i \in DOMAIN df.columns : df.columns[i] = c}
    IN  IF hits = {} THEN 0 ELSE Min(hits)

HasCol(df, c) == ColPos(df, c) # 0

\* df[c]: the cells of column c, row key -> cell
Col(df, c) == df.values[ColPos(df, c)]

\* df[c] = column: overwrite the column labelled c, or append it as the last one
SetCol(df, c, column) ==
    IF HasCol(df, c)
    THEN [df EXCEPT !.values = [i \in DOMAIN df.values |->
                                   IF df.columns[i] = c THEN column ELSE df.values[i]]]
    ELSE [df EXCEPT !.columns = Append(df.columns, c),
                    !.values = Append(df.values, column)]

\* df.drop(c, axis=1): a new frame without the columns labelled c
drop(df, c) ==
    LET keep == {i \in DOMAIN df.columns : df.columns[i] # c}
        pos == SelectSeq([i \in DOMAIN df.columns |-> i], LAMBDA i : i \in keep)
    IN  [df EXCEPT !.columns = [j \in DOMAIN pos |-> df.columns[pos[j]]],
                   !.values = [j \in DOMAIN pos |-> df.values[pos[j]]]]

\* df.to_dict(): {label: {row key: cell}}, a copy
to_dict(df) ==
    [kind |-> "dict", multi |-> FALSE, index |-> <<>>,
     columns |-> df.columns, values |-> df.values]

\* df.sort_index(inplace=True)
sort_index(df) == [df EXCEPT !.index = SortAsc(df.index)]

\* a Series: one column of a frame restricted to the row keys in keep
Series(df, c, keep) ==
    [kind |-> "Series", multi |-> df.multi,
     index |-> SelectRows(df.index, keep),
     columns |-> <<c>>,
     values |-> <<[r \in keep \cap Range(df.index) |-> Col(df, c)[r]]>>]

\* the frame xls.parse(sheet).set_index(keys) builds; multi: more than one key
Frame(sheet, multi) ==
    [kind |-> "DataFrame", multi |-> multi, index |-> sheet.rows,
     columns |-> sheet.columns, values |-> sheet.values]

----------------------------------------------------------------------------
(* MvsoModel/input.py *)

\* split_columns as the code has it: the labels are split at '.', whatever sep is.
\* pd.MultiIndex.from_tuples is represented by the list of tuples it is given.
split_columns(columns, sep) ==
    IF Len(columns) = 0 THEN columns
    ELSE [i \in DOMAIN columns |-> split(columns[i], <<".">>)]

\* the keys of the dict read_excel returns, in the order of the dict literal
DataKeys ==
    <<"global_prop", "site", "commodity", "process", "process_commodity",
      "transmission", "storage", "demand", "supim", "buy_sell_price", "dsm">>

Keys == Range(DataKeys)

\* the sheet each table is parsed from
SheetOf ==
    [k \in Keys |->
        CASE k = "global_prop" -> "Global"
          [] k = "site" -> "Site"
          [] k = "commodity" -> "Commodity"
          [] k = "process" -> "Process"
          [] k = "process_commodity" -> "Process-Commodity"
          [] k = "transmission" -> "Transmission"
          [] k = "storage" -> "Storage"
          [] k = "demand" -> "Demand"
          [] k = "supim" -> "SupIm"
          [] k = "buy_sell_price" -> "Buy-Sell-Price"
          [] k = "dsm" -> "DSM"]

\* the tables whose set_index names several columns: their index is a MultiIndex
MultiIndexed ==
    {"commodity", "process", "process_commodity", "transmission", "storage", "dsm"}

\* the tables whose column titles are split at '.'
SplitTables == {"demand", "supim", "buy_sell_price"}

\* read_excel: parse the eleven sheets into new frames, split the column titles
\* of the time series, sort the nested indexes; [heap, data]
read_excel(h, x) ==
    LET parsed == [k \in Keys |-> Frame(x[SheetOf[k]], k \in MultiIndexed)]
        titled == [k \in Keys |->
                      IF k \in SplitTables
                      THEN [parsed[k] EXCEPT
                               !.columns = split_columns(parsed[k].columns, <<".">>)]
                      ELSE parsed[k]]
        sorted == [k \in Keys |->
                      IF titled[k].multi THEN sort_index(titled[k]) ELSE titled[k]]
    IN  [heap |-> h \o [i \in DOMAIN DataKeys |-> sorted[DataKeys[i]]],
         data |-> [k \in Keys |->
                      Len(h) + (CHOOSE i \in DOMAIN DataKeys : DataKeys[i] = k)]]

\* modelhelper.annuity_factor(n, i) for one asset: (1+i)^n * i / ((1+i)^n - 1),
\* in thousandths, with the rate i given in tenths (1 is 10 %)
annuity_factor(n, i) ==
    (Pow(10 + i, n) * i * 100) \div (Pow(10 + i, n) - Pow(10, n))

\* annuity_factor applied to two Series: element by element
annuity_factor_series(n, i) ==
    [r \in DOMAIN n |-> annuity_factor(n[r], i[r])]

\* the value of the Direction level of a Process-Commodity row key
Direction(r) == IF r % 2 = 0 THEN "In" ELSE "Out"

\* df.xs(dir, level='Direction')[c]
xs(df, dir, c) == Series(df, c, {r \in Range(df.index) : Direction(r) = dir})

\* a slip in the data import: m.site is given the commodity table
shared_attrs_mixed(d, timesteps) ==
    [a \in (Keys \ {"global_prop"}) \cup {"timesteps"} |->
        IF a = "timesteps" THEN timesteps
        ELSE IF a = "site" THEN d["commodity"] ELSE d[a]]

\* lines 89-100: the attributes that hold the caller's own tables, and timesteps
shared_attrs(d, timesteps) ==
    [a \in (Keys \ {"global_prop"}) \cup {"timesteps"} |->
        IF a = "timesteps" THEN timesteps ELSE d[a]]

\* lines 89-135: the objects pyomo_model_prep creates before the annuity factor
\* is derived, as <<attribute, object>> in the order of their creation
early_objects(h, d) ==
    LET pc == h[d["process_commodity"]]
        pro == h[d["process"]]
        sit == h[d["site"]]
        pos(df, c) == {r \in Range(df.index) : Col(df, c)[r] > 0}
        nonneg(df, c) == {r \in Range(df.index) : Col(df, c)[r] >= 0}
        rin == xs(pc, "In", "ratio")
        rout == xs(pc, "Out", "ratio")
        rinmin == xs(pc, "In", "ratio-min")
        routmin == xs(pc, "Out", "ratio-min")
    IN  << <<"global_prop", drop(h[d["global_prop"]], "description")>>,
           <<"commodity_dict", to_dict(h[d["commodity"]])>>,
           <<"demand_dict", to_dict(h[d["demand"]])>>,
           <<"supim_dict", to_dict(h[d["supim"]])>>,
           <<"dsm_dict", to_dict(h[d["dsm"]])>>,
           <<"buy_sell_price_dict", to_dict(h[d["buy_sell_price"]])>>,
           <<"r_in", rin>>,
           <<"r_out", rout>>,
           <<"r_in_dict", to_dict(rin)>>,
           <<"r_out_dict", to_dict(rout)>>,
           <<"proc_area", Series(pro, "area-per-cap", nonneg(pro, "area-per-cap"))>>,
           <<"sit_area", Series(sit, "area", nonneg(sit, "area"))>>,
           <<"r_in_min_fraction",
             Series(rinmin, "ratio-min", pos(rinmin, "ratio-min"))>>,
           <<"r_out_min_fraction",
             Series(routmin, "ratio-min", pos(routmin, "ratio-min"))>> >>

\* a slip in the assignment: the derived column is always added as a new last
\* column, also when the table already has an 'annuity-factor'
set_annuity_appended(h, ref) ==
    [h EXCEPT ![ref] =
        [@ EXCEPT !.columns = Append(@, "annuity-factor"),
                  !.values = Append(@, annuity_factor_series(
                                           Col(h[ref], "depreciation"),
                                           Col(h[ref], "wacc")))]]

\* m.<table>['annuity-factor'] = annuity_factor(m.<table>['depreciation'],
\*                                              m.<table>['wacc'])
\* on the object that both the model and the caller's dict refer to
set_annuity(h, ref) ==
    [h EXCEPT ![ref] =
        SetCol(h[ref], "annuity-factor",
               annuity_factor_series(Col(h[ref], "depreciation"),
                                     Col(h[ref], "wacc")))]

\* a slip in the third assignment: the storage factor is computed from the
\* columns of the transmission table
derive_annuity_foreign(h, d) ==
    LET h2 == set_annuity(set_annuity(h, d["process"]), d["transmission"])
        t == h2[d["transmission"]]
        sto == h2[d["storage"]]
    IN  [h2 EXCEPT ![d["storage"]] =
            SetCol(sto, "annuity-factor",
                   [r \in Range(sto.index) |->
                       annuity_factor(Col(t, "depreciation")[Head(t.index)],
                                      Col(t, "wacc")[Head(t.index)])])]

\* lines 137-146: the three assignments, in order
derive_annuity(h, d) ==
    set_annuity(set_annuity(set_annuity(h, d["process"]), d["transmission"]),
                d["storage"])

\* lines 148-152: the dictionaries built after the annuity factor is derived
late_objects(h, d) ==
    << <<"process_dict", to_dict(h[d["process"]])>>,
       <<"transmission_dict", to_dict(h[d["transmission"]])>>,
       <<"storage_dict", to_dict(h[d["storage"]])>> >>

\* pyomo_model_prep(data, timesteps): [exc, heap, m].  drop('description') raises
\* KeyError when global_prop has no such column; nothing was changed by then.
pyomo_model_prep(h, d, timesteps) ==
    IF ~HasCol(h[d["global_prop"]], "description")
    THEN [exc |-> "KeyError", heap |-> h, m |-> NoProb]
    ELSE
    LET early == early_objects(h, d)
        h1 == derive_annuity(h, d)
        late == late_objects(h1, d)
        new == early \o late
        own == shared_attrs(d, timesteps)
        names == {new[i][1] : i \in DOMAIN new}
    IN  [exc |-> "",
         heap |-> h1 \o [i \in DOMAIN new |-> new[i][2]],
         m |-> [attrs |->
                  [a \in DOMAIN own \cup names |->
                      IF a \in names
                      THEN Len(h1) + (CHOOSE i \in DOMAIN new : new[i][1] = a)
                      ELSE own[a]]]]

\* a slip in the last branch: an unknown name yields None instead of raising
get_input_silent(h, p, name) ==
    IF name \in DOMAIN p.attrs
    THEN [exc |-> "", ret |-> p.attrs[name]]
    ELSE IF "_data" \in DOMAIN p.attrs /\ HasCol(h[p.attrs["_data"]], name)
    THEN [exc |-> "", ret |-> Col(h[p.attrs["_data"]], name)]
    ELSE [exc |-> "", ret |-> 0]

\* get_input(prob, name): [exc, ret].  hasattr(prob, '_data') is the attribute
\* test of the first branch applied to '_data'; the cache is a dict on the heap.
get_input(h, p, name) ==
    IF name \in DOMAIN p.attrs
    THEN [exc |-> "", ret |-> p.attrs[name]]
    ELSE IF "_data" \in DOMAIN p.attrs /\ HasCol(h[p.attrs["_data"]], name)
    THEN [exc |-> "", ret |-> Col(h[p.attrs["_data"]], name)]
    ELSE [exc |-> "ValueError", ret |-> 0]

----------------------------------------------------------------------------
(* The input workbook *)

\* discount rates of a generated workbook, in tenths
Waccs == {1, 2}

\* the tables that carry 'wacc' and 'depreciation'
Assets == {"process", "transmission", "storage"}

\* row keys of the Process sheet, standing for
\* ('Node_1', 'Gas plant') < ('Node_2', 'Biomass plant') < ('Node_2', 'Gas plant')
Node1Gas == 1
Node2Biomass == 2
Node2Gas == 3

ProcessRows == {Node1Gas, Node2Biomass, Node2Gas}

const(rows, v) == [r \in rows |-> v]

Restrict(f, S) == [r \in S |-> f[r]]

\* a workbook with the required sheets.  order: the rows of the Process sheet as
\* the file lists them; cap: 'cap-up' per process; dep, wacc: per asset table;
\* desc: whether the Global sheet has its 'description' column
Workbook(order, cap, dep, wacc, desc) ==
    ("Global" :>
        [rows |-> <<1, 2>>,
         columns |-> IF desc THEN <<"value", "description">> ELSE <<"value">>,
         values |-> IF desc THEN <<(1 :> 150) @@ (2 :> 35), const({1, 2}, 7)>>
                    ELSE <<(1 :> 150) @@ (2 :> 35)>>])
    @@ ("Site" :>
        [rows |-> <<2, 1>>, columns |-> <<"area">>,
         values |-> <<(1 :> 100) @@ (2 :> -1)>>])
    @@ ("Commodity" :>
        [rows |-> <<2, 1>>, columns |-> <<"price", "max">>,
         values |-> <<(1 :> 0) @@ (2 :> 27), const({1, 2}, 99)>>])
    @@ ("Process" :>
        [rows |-> order,
         columns |-> <<"cap-up", "wacc", "depreciation", "area-per-cap">>,
         values |-> <<Restrict(cap, Range(order)),
                      const(Range(order), wacc["process"]),
                      const(Range(order), dep["process"]),
                      Restrict((Node1Gas :> -1) @@ (Node2Biomass :> 0) @@ (Node2Gas :> 5),
                               Range(order))>>])
    @@ ("Process-Commodity" :>
        [rows |-> <<2, 1, 4, 3>>, columns |-> <<"ratio", "ratio-min">>,
         values |-> <<(1 :> 1) @@ (2 :> 3) @@ (3 :> 2) @@ (4 :> 1),
                      (1 :> 0) @@ (2 :> 2) @@ (3 :> 1) @@ (4 :> -1)>>])
    @@ ("Transmission" :>
        [rows |-> <<2, 1>>, columns |-> <<"eff", "wacc", "depreciation">>,
         values |-> <<const({1, 2}, 90), const({1, 2}, wacc["transmission"]),
                      const({1, 2}, dep["transmission"])>>])
    @@ ("Storage" :>
        [rows |-> <<1>>, columns |-> <<"depreciation", "wacc">>,
         values |-> <<const({1}, dep["storage"]), const({1}, wacc["storage"])>>])
    @@ ("Demand" :>
        [rows |-> <<0, 1>>, columns |-> << <<"a", ".", "e">>, <<"b", ".", "e">> >>,
         values |-> <<(0 :> 0) @@ (1 :> 40), (0 :> 0) @@ (1 :> 60)>>])
    @@ ("SupIm" :>
        [rows |-> <<0, 1>>, columns |-> << <<"a", ".", "w">> >>,
         values |-> <<(0 :> 0) @@ (1 :> 1)>>])
    @@ ("Buy-Sell-Price" :>
        [rows |-> <<0, 1>>, columns |-> << <<"e">> >>,
         values |-> <<(0 :> 0) @@ (1 :> 3)>>])
    @@ ("DSM" :>
        [rows |-> <<1>>, columns |-> <<"delay">>, values |-> <<const({1}, 4)>>])

\* the timesteps argument: a range object the caller owns
TimestepsObject ==
    [kind |-> "range", multi |-> FALSE, index |-> <<0, 1>>,
     columns |-> <<>>, values |-> <<>>]

\* reference of the timesteps range in the initial heap
Timesteps == 1

----------------------------------------------------------------------------
(* The input layer as a state machine: a workbook is read once, a model      *)
(* instance is prepared from the dict (possibly more than once), an instance *)
(* may carry an input cache `_data`, and get_input is asked for a name.      *)

\* row orders of the Process sheet in a generated workbook
ProcessOrders == {<<Node1Gas, Node2Biomass, Node2Gas>>, <<Node2Gas, Node1Gas, Node2Biomass>>}

DefaultCap == (Node1Gas :> 8) @@ (Node2Biomass :> 16) @@ (Node2Gas :> 32)

InputWorkbooks ==
    {Workbook(order, DefaultCap, dep, wacc, desc) :
        order \in ProcessOrders, dep \in [Assets -> 1..MaxDep],
        wacc \in [Assets -> Waccs], desc \in BOOLEAN}

\* the names get_input is asked for
InputNames == Keys \cup {"timesteps", "process_dict", "no_such_table"}

\* the sets of tables an input cache holds
CacheChoices == {{}, {"site", "process"}}

InitInput ==
    /\ IdleSplit /\ IdleRun /\ IdleLegend /\ IdleCompare /\ IdleRecent
    /\ xls \in InputWorkbooks
    /\ heap = <<TimestepsObject>>
    /\ data = EmptyMap
    /\ passed = EmptyMap
    /\ prob = NoProb
    /\ nprep = 0
    /\ call = [op |-> "", name |-> ""]
    /\ exc = ""
    /\ ret = 0

\* data = read_excel(filename)
ReadExcel ==
    /\ DOMAIN data = {}
    /\ LET r == read_excel(heap, xls)
       IN  /\ heap' = r.heap
           /\ data' = r.data
    /\ call' = [op |-> "read_excel", name |-> ""]
    /\ exc' = ""
    /\ ret' = 0
    /\ UNCHANGED <<xls, passed, prob, nprep>>
    /\ UNCHANGED <<splitVars, runVars, legendVars, compVars, recentVars>>

\* prob = pyomo_model_prep(data, timesteps); prob keeps its value when the call raises
PyomoModelPrep ==
    /\ DOMAIN data # {}
    /\ nprep < MaxPrep
    /\ LET r == pyomo_model_prep(heap, data, Timesteps)
       IN  /\ heap' = r.heap
           /\ prob' = IF r.exc = "" THEN r.m ELSE prob
           /\ exc' = r.exc
    /\ passed' = [k \in Keys |-> heap[data[k]]]
    /\ nprep' = nprep + 1
    /\ call' = [op |-> "pyomo_model_prep", name |-> ""]
    /\ ret' = 0
    /\ UNCHANGED <<xls, data>>
    /\ UNCHANGED <<splitVars, runVars, legendVars, compVars, recentVars>>

\* an instance that carries the input cache `_data` over copies of the tables S
\* (the load case of get_input), beside whatever attributes it has
CacheInput(S) ==
    /\ DOMAIN data # {}
    /\ "_data" \notin DOMAIN prob.attrs
    /\ LET keys == SelectSeq(DataKeys, LAMBDA k : k \in S)
           copies == [i \in DOMAIN keys |-> heap[data[keys[i]]]]
           cache == [kind |-> "dict", multi |-> FALSE, index |-> <<>>,
                     columns |-> keys,
                     values |-> [i \in DOMAIN keys |-> Len(heap) + i]]
       IN  /\ heap' = (heap \o copies) \o <<cache>>
           /\ prob' = [attrs |-> prob.attrs @@ ("_data" :> Len(heap) + Len(keys) + 1)]
    /\ call' = [op |-> "cache", name |-> ""]
    /\ exc' = ""
    /\ ret' = 0
    /\ UNCHANGED <<xls, data, passed, nprep>>
    /\ UNCHANGED <<splitVars, runVars, legendVars, compVars, recentVars>>

\* get_input(prob, name)
GetInput(name) ==
    /\ DOMAIN prob.attrs # {}
    /\ LET r == get_input(heap, prob, name)
       IN  /\ exc' = r.exc
           /\ ret' = r.ret
    /\ call' = [op |-> "get_input", name |-> name]
    /\ UNCHANGED <<xls, heap, data, passed, prob, nprep>>
    /\ UNCHANGED <<splitVars, runVars, legendVars, compVars, recentVars>>

NextInput ==
    \/ ReadExcel
    \/ PyomoModelPrep
    \/ \E name \in Keys : GetInput(name)

\* read_excel, pyomo_model_prep and get_input on every generated workbook
SpecInput == InitInput /\ [][NextInput]_vars

\* the workbooks get_input's instances are built from
LookupWorkbooks ==
    {Workbook(order, DefaultCap, const(Assets, 1), const(Assets, 1), desc) :
        order \in ProcessOrders, desc \in BOOLEAN}

InitGetInput ==
    /\ IdleSplit /\ IdleRun /\ IdleLegend /\ IdleCompare /\ IdleRecent
    /\ xls \in LookupWorkbooks
    /\ heap = <<TimestepsObject>>
    /\ data = EmptyMap
    /\ passed = EmptyMap
    /\ prob = NoProb
    /\ nprep = 0
    /\ call = [op |-> "", name |-> ""]
    /\ exc = ""
    /\ ret = 0

NextGetInput ==
    \/ ReadExcel
    \/ PyomoModelPrep
    \/ \E S \in CacheChoices : CacheInput(S)
    \/ \E name \in InputNames : GetInput(name)

\* get_input on prepared instances, cached instances and instances that are both
SpecGetInput == InitGetInput /\ [][NextGetInput]_vars

----------------------------------------------------------------------------
(* Properties of the input layer *)

\* the last operation was get_input(prob, name) for this name
Asked(name) == call.op = "get_input" /\ call.name = name

\* name is neither an attribute of prob nor a key of prob._data
Unknown(name) ==
    /\ name \notin DOMAIN prob.attrs
    /\ ~("_data" \in DOMAIN prob.attrs
         /\ name \in Range(heap[prob.attrs["_data"]].columns))

IsTable(ref) == ref \in DOMAIN heap /\ heap[ref].kind = "DataFrame"

\* C1, as stated: get_input raises ValueError exactly when the name is neither an
\* attribute of prob nor a key of prob._data, and in every other case raises
\* nothing and returns a table.
C1_AlwaysATable ==
    \A name \in InputNames :
        Asked(name) =>
            /\ (exc = "ValueError") <=> Unknown(name)
            /\ ~Unknown(name) => (exc = "" /\ IsTable(ret))

\* C1, amended: get_input raises ValueError exactly when the name is neither an
\* attribute of prob nor a key of prob._data; in every other case it raises
\* nothing and returns the object stored under that name, the attribute if there
\* is one and the cache entry otherwise, which is a table for each of
\* read_excel's key names; and the call changes neither prob nor any object.
C1_GetInput ==
    /\ [](\A name \in InputNames :
            Asked(name) =>
                /\ (exc = "ValueError") <=> Unknown(name)
                /\ ~Unknown(name) =>
                    /\ exc = ""
                    /\ ret = IF name \in DOMAIN prob.attrs THEN prob.attrs[name]
                             ELSE Col(heap[prob.attrs["_data"]], name)
                    /\ name \in Keys => IsTable(ret))
    /\ [][call'.op = "get_input" => (prob' = prob /\ heap' = heap /\ data' = data)]_vars

\* C1 witness: a name was refused on an instance that has no _data at all, and
\* the instance does have attributes
C1_Witness ==
    /\ call.op = "get_input"
    /\ exc = "ValueError"
    /\ "_data" \notin DOMAIN prob.attrs
    /\ "process" \in DOMAIN prob.attrs

\* C3, as stated: in the dict read_excel returns, each of process, transmission
\* and storage carries an 'annuity-factor' column.
C3_DerivedInReadExcel ==
    call.op = "read_excel" =>
        \A k \in Assets : HasCol(heap[data[k]], "annuity-factor")

\* the last get_input answered for an instance pyomo_model_prep returned
AskedPrepared(name) == Asked(name) /\ "timesteps" \in DOMAIN prob.attrs

\* C4, as stated: for every key k of read_excel's dict, get_input on the prepared
\* instance succeeds and returns a table identical to the data[k] passed in.
C4_RoundTrip ==
    \A k \in Keys :
        AskedPrepared(k) => (exc = "" /\ IsTable(ret) /\ heap[ret] = passed[k])

\* C4, amended: whenever pyomo_model_prep returned, get_input succeeds for every
\* key; for every key but global_prop it returns the very table object data[k],
\* which for site, commodity, process_commodity, demand, supim, buy_sell_price
\* and dsm has the rows, columns and values that were passed in, and for process,
\* transmission and storage has them plus the column 'annuity-factor'; for
\* global_prop it returns a new table: the one passed in without 'description'.
C4_RoundTripButDerived ==
    \A k \in Keys :
        AskedPrepared(k) =>
            /\ exc = ""
            /\ IsTable(ret)
            /\ IF k = "global_prop"
               THEN /\ ret # data[k]
                    /\ heap[ret] = drop(passed[k], "description")
               ELSE /\ ret = data[k]
                    /\ IF k \in Assets
                       THEN /\ HasCol(heap[ret], "annuity-factor")
                            /\ drop(heap[ret], "annuity-factor")
                                 = drop(passed[k], "annuity-factor")
                       ELSE heap[ret] = passed[k]

\* C4 witness: the process table was asked for and came back with a column that
\* was not passed in
C4_Witness ==
    /\ AskedPrepared("process")
    /\ exc = ""
    /\ nprep = 1
    /\ HasCol(heap[ret], "annuity-factor")
    /\ ~HasCol(passed["process"], "annuity-factor")

\* pyomo_model_prep has just returned a model
Prepared == call.op = "pyomo_model_prep" /\ exc = ""

\* C10: after pyomo_model_prep, the 'annuity-factor' of every row of process,
\* transmission and storage is annuity_factor(depreciation, wacc) of that row of
\* the same table, and process_dict, transmission_dict and storage_dict have the
\* key 'annuity-factor' with those values.
C10_AnnuityFromOwnColumns ==
    Prepared =>
        \A k \in Assets :
            LET t == heap[data[k]]
                own == [r \in Range(t.index) |->
                           annuity_factor(Col(passed[k], "depreciation")[r],
                                          Col(passed[k], "wacc")[r])]
                dict == heap[prob.attrs[
                            CASE k = "process" -> "process_dict"
                              [] k = "transmission" -> "transmission_dict"
                              [] k = "storage" -> "storage_dict"]]
            IN  /\ HasCol(t, "annuity-factor")
                /\ Col(t, "annuity-factor") = own
                /\ dict.kind = "dict"
                /\ HasCol(dict, "annuity-factor")
                /\ Col(dict, "annuity-factor") = own

\* C10 witness: a model was prepared from tables whose depreciation and wacc
\* differ from each other and between storage and transmission
C10_Witness ==
    /\ Prepared
    /\ nprep = 1
    /\ Col(passed["storage"], "depreciation")[1] # Col(passed["storage"], "wacc")[1]
    /\ Col(passed["storage"], "depreciation")[1]
         # Col(passed["transmission"], "depreciation")[1]
    /\ Col(passed["storage"], "wacc")[1] # Col(passed["transmission"], "wacc")[1]

\* the last operation was a call of pyomo_model_prep on a dict whose asset
\* tables already carried 'annuity-factor': an earlier call on it has returned
PreparedAgain ==
    /\ call.op = "pyomo_model_prep"
    /\ \A k \in Assets : HasCol(passed[k], "annuity-factor")

\* C11: pyomo_model_prep shares the caller's tables by reference.  After it
\* returns, every attribute but global_prop is the caller's own table object;
\* data['process'], data['transmission'] and data['storage'] have the column
\* 'annuity-factor' and are otherwise as passed in; data['global_prop'] is as
\* passed in, 'description' included, and the model holds another object; every
\* other table of data is as passed in.  A call on a dict that an earlier call
\* has prepared does not fail: it overwrites the column with the recomputed
\* values and leaves the column labels as they were.
C11_SharedByReference ==
    /\ Prepared =>
          \A k \in Keys :
              IF k = "global_prop"
              THEN /\ heap[data[k]] = passed[k]
                   /\ HasCol(heap[data[k]], "description")
                   /\ prob.attrs[k] # data[k]
              ELSE /\ prob.attrs[k] = data[k]
                   /\ IF k \in Assets
                      THEN /\ HasCol(heap[data[k]], "annuity-factor")
                           /\ drop(heap[data[k]], "annuity-factor")
                                = drop(passed[k], "annuity-factor")
                      ELSE heap[data[k]] = passed[k]
    /\ PreparedAgain =>
          /\ exc = ""
          /\ \A k \in Assets :
                /\ heap[data[k]].columns = passed[k].columns
                /\ Col(heap[data[k]], "annuity-factor")
                     = annuity_factor_series(Col(passed[k], "depreciation"),
                                             Col(passed[k], "wacc"))

\* C11 witness: pyomo_model_prep returned for the second time on the same dict,
\* whose process table came in with the column the first call had added
C11_Witness ==
    /\ Prepared
    /\ nprep = 2
    /\ PreparedAgain
    /\ HasCol(passed["global_prop"], "description")

----------------------------------------------------------------------------
(* split_columns on generated label lists and separators *)

\* longest generated label, in characters
MaxLabelLen == 3
\* longest generated list of labels
MaxColumns == 2

Alphabet == {"a", ".", "-"}

SeqsUpTo(S, n) == UNION {[1..k -> S] : k \in 0..n}

GenLabels == SeqsUpTo(Alphabet, MaxLabelLen)

\* the separators split_columns is called with
Separators == {<<".">>, <<"-">>, <<"-", ".">>}

InitSplit ==
    /\ IdleInput /\ IdleRun /\ IdleLegend /\ IdleCompare /\ IdleRecent
    /\ arg_columns \in SeqsUpTo(GenLabels, MaxColumns)
    /\ arg_sep \in Separators
    /\ split_out = [done |-> FALSE, value |-> <<>>]

\* split_columns(columns, sep)
SplitColumns ==
    /\ ~split_out.done
    /\ split_out' = [done |-> TRUE, value |-> split_columns(arg_columns, arg_sep)]
    /\ UNCHANGED <<arg_columns, arg_sep>>
    /\ UNCHANGED <<inputVars, runVars, legendVars, compVars, recentVars>>

NextSplit == SplitColumns

SpecSplit == InitSplit /\ [][NextSplit]_vars

\* parts is label split at every occurrence of sep: joining the parts with sep
\* gives the label back and no part contains sep
SplitAt(parts, label, sep) ==
    /\ Len(parts) >= 1
    /\ join(parts, sep) = label
    /\ \A j \in DOMAIN parts : Find(parts[j], sep) = 0

\* C2, as stated: for a non-empty list and any separator the result has one entry
\* per label, in order, the i-th being the i-th label split at every occurrence
\* of sep; an empty list is returned unchanged.
C2_SplitAtSeparator ==
    split_out.done =>
        IF Len(arg_columns) = 0 THEN split_out.value = arg_columns
        ELSE /\ Len(split_out.value) = Len(arg_columns)
             /\ \A i \in DOMAIN arg_columns :
                    SplitAt(split_out.value[i], arg_columns[i], arg_sep)

\* what does hold: the labels are split at every '.', whatever sep is
SplitAtDot ==
    split_out.done =>
        IF Len(arg_columns) = 0 THEN split_out.value = arg_columns
        ELSE /\ Len(split_out.value) = Len(arg_columns)
             /\ \A i \in DOMAIN arg_columns :
                    SplitAt(split_out.value[i], arg_columns[i], <<".">>)

----------------------------------------------------------------------------
(* runme.py: the scenario functions, run_scenario and the loop of __main__ *)

\* longest generated list of scenarios
MaxScenarios == 2
\* largest generated 'cap-up', in units of four
MaxCapUnits == 2

ScenarioNames == {"scenario_base", "scenario_Node_2_process_caps"}

\* scenario_base(data): [exc, heap, data]
scenario_base(h, d) == [exc |-> "", heap |-> h, data |-> d]

\* pro.loc[row, 'cap-up'] *= num/den on the table at ref; [exc, heap].
\* Reading a row that is not in the index raises KeyError.
scale_cap_up(h, ref, row, num, den) ==
    IF row \notin Range(h[ref].index)
    THEN [exc |-> "KeyError", heap |-> h]
    ELSE LET cap == Col(h[ref], "cap-up")
         IN  [exc |-> "",
              heap |-> [h EXCEPT ![ref] =
                          SetCol(h[ref], "cap-up",
                                 [cap EXCEPT ![row] = (cap[row] * num) \div den])]]

\* scenario_Node_2_process_caps(data): [exc, heap, data]; the first assignment
\* stays in effect when the second one raises
scenario_Node_2_process_caps(h, d) ==
    LET gas == scale_cap_up(h, d["process"], Node2Gas, 1, 2)
        bio == scale_cap_up(gas.heap, d["process"], Node2Biomass, 1, 4)
    IN  IF gas.exc # "" THEN [exc |-> gas.exc, heap |-> gas.heap, data |-> d]
        ELSE [exc |-> bio.exc, heap |-> bio.heap, data |-> d]

\* scenario(data) for the scenario function of that name
apply_scenario(sce, h, d) ==
    IF sce = "scenario_base" THEN scenario_base(h, d)
    ELSE scenario_Node_2_process_caps(h, d)

\* a slip in line 79: the workbook is read for the first scenario only and the
\* dict is kept for the following ones
run_read_once(h, x, d) ==
    IF DOMAIN d = {} THEN read_excel(h, x) ELSE [heap |-> h, data |-> d]

\* line 79, data = MvsoModel.read_excel(input_file): [heap, data].  d is the dict
\* the previous run left behind; the code does not look at it.
run_read(h, x, d) == read_excel(h, x)

\* a slip in lines 80-81: the input is validated before the scenario is applied
run_scenario_steps_validate_first ==
    <<"read_excel", "validate_input", "scenario", "create_model", "solve",
      "save", "report", "result_figures">>

\* lines 77-113: the calls of run_scenario, in program order
run_scenario_steps ==
    <<"read_excel", "scenario", "validate_input", "create_model", "solve",
      "save", "report", "result_figures">>

\* the step that follows s, "return" after the last one
step_after(s) ==
    LET i == CHOOSE j \in DOMAIN run_scenario_steps : run_scenario_steps[j] = s
    IN  IF i = Len(run_scenario_steps) THEN "return" ELSE run_scenario_steps[i + 1]

\* the file in result_dir a step writes ("": none)
output_of(s) ==
    CASE s = "solve" -> "log"
      [] s = "save" -> "h5"
      [] s = "report" -> "xlsx"
      [] s = "result_figures" -> "figures"
      [] OTHER -> ""

\* MvsoModel.create_model(data, timesteps): the instance holds the tables it is given
create_model(d, timesteps) ==
    [attrs |-> [a \in Keys \cup {"timesteps"} |->
                   IF a = "timesteps" THEN timesteps ELSE d[a]]]

RunOrders == {<<Node2Gas, Node1Gas, Node2Biomass>>, <<Node1Gas, Node2Gas>>}

Caps == {4 * u : u \in 1..MaxCapUnits}

RunWorkbooks ==
    {Workbook(order, (Node1Gas :> 8) @@ (Node2Biomass :> b) @@ (Node2Gas :> g),
              const(Assets, 1), const(Assets, 1), TRUE) :
        order \in RunOrders, b \in Caps, g \in Caps}

InitRun ==
    /\ IdleSplit /\ IdleLegend /\ IdleCompare /\ IdleRecent
    /\ xls \in RunWorkbooks
    /\ heap = <<TimestepsObject>>
    /\ data = EmptyMap
    /\ prob = NoProb
    /\ passed = <<>> /\ nprep = 0 /\ call = <<>> /\ ret = 0
    /\ exc = ""
    /\ scenarios \in UNION {[1..n -> ScenarioNames] : n \in 1..MaxScenarios}
    /\ si = 0
    /\ rpc = "for"
    /\ log = <<>>
    /\ written = {}
    /\ failed = ""
    /\ validated = <<>>
    /\ model_input = <<>>

runFrame == <<passed, nprep, call, ret, splitVars, legendVars, compVars, recentVars>>

\* for scenario in scenarios: the next call of run_scenario begins
ForNext ==
    /\ rpc = "for"
    /\ si < Len(scenarios)
    /\ si' = si + 1
    /\ rpc' = run_scenario_steps[1]
    /\ log' = <<>>
    /\ written' = {}
    /\ validated' = <<>>
    /\ UNCHANGED <<xls, heap, data, prob, exc, scenarios, failed, model_input>>
    /\ UNCHANGED runFrame

\* the list is exhausted: the script ends
ForExit ==
    /\ rpc = "for"
    /\ si = Len(scenarios)
    /\ rpc' = "exit"
    /\ UNCHANGED <<xls, heap, data, prob, exc, scenarios, si, log, written, failed,
                   validated, model_input>>
    /\ UNCHANGED runFrame

\* the step s returned
Returned(s) ==
    /\ log' = Append(log, s)
    /\ rpc' = step_after(s)
    /\ exc' = ""
    /\ failed' = ""

\* the step s raised e: the exception leaves run_scenario and ends the script
Raised(s, e) ==
    /\ log' = log
    /\ rpc' = "raised"
    /\ exc' = e
    /\ failed' = s

\* data = MvsoModel.read_excel(input_file)
RunReadExcel ==
    /\ rpc = "read_excel"
    /\ \/ /\ LET r == run_read(heap, xls, data)
             IN  heap' = r.heap /\ data' = r.data
          /\ Returned("read_excel")
       \/ /\ UNCHANGED <<heap, data>>
          /\ Raised("read_excel", "IOError")
    /\ UNCHANGED <<xls, prob, scenarios, si, written, validated, model_input>>
    /\ UNCHANGED runFrame

\* data = scenario(data)
RunScenarioFunction ==
    /\ rpc = "scenario"
    /\ LET r == apply_scenario(scenarios[si], heap, data)
       IN  /\ heap' = r.heap
           /\ data' = r.data
           /\ IF r.exc = "" THEN Returned("scenario") ELSE Raised("scenario", r.exc)
    /\ UNCHANGED <<xls, prob, scenarios, si, written, validated, model_input>>
    /\ UNCHANGED runFrame

\* MvsoModel.validate_input(data): accepts the data or raises
RunValidateInput ==
    /\ rpc = "validate_input"
    /\ validated' = heap[data["process"]]
    /\ \/ Returned("validate_input")
       \/ Raised("validate_input", "ValueError")
    /\ UNCHANGED <<xls, heap, data, prob, scenarios, si, written, model_input>>
    /\ UNCHANGED runFrame

\* prob = MvsoModel.create_model(data, timesteps)
RunCreateModel ==
    /\ rpc = "create_model"
    /\ \/ /\ prob' = create_model(data, Timesteps)
          /\ model_input' = Append(model_input,
                                   [scenario |-> scenarios[si],
                                    process |-> heap[data["process"]]])
          /\ Returned("create_model")
       \/ /\ UNCHANGED <<prob, model_input>>
          /\ Raised("create_model", "KeyError")
    /\ UNCHANGED <<xls, heap, data, scenarios, si, written, validated>>
    /\ UNCHANGED runFrame

\* a step that writes its file to result_dir: the solver run (with setup_solver),
\* save, report, result_figures.  A step that raises may have begun its own file.
RunOutputStep(s) ==
    /\ rpc = s
    /\ \/ /\ written' = written \cup {output_of(s)}
          /\ Returned(s)
       \/ /\ written' \in {written, written \cup {output_of(s)}}
          /\ Raised(s, "Exception")
    /\ UNCHANGED <<xls, heap, data, prob, scenarios, si, validated, model_input>>
    /\ UNCHANGED runFrame

RunSolve == RunOutputStep("solve")

RunSave == RunOutputStep("save")

RunReport == RunOutputStep("report")

RunResultFigures == RunOutputStep("result_figures")

\* return prob: back in the loop of __main__
RunReturn ==
    /\ rpc = "return"
    /\ rpc' = "for"
    /\ UNCHANGED <<xls, heap, data, prob, exc, scenarios, si, log, written, failed,
                   validated, model_input>>
    /\ UNCHANGED runFrame

NextRun ==
    \/ ForNext
    \/ ForExit
    \/ RunReadExcel
    \/ RunScenarioFunction
    \/ RunValidateInput
    \/ RunCreateModel
    \/ RunSolve
    \/ RunSave
    \/ RunReport
    \/ RunResultFigures
    \/ RunReturn

SpecRun == InitRun /\ [][NextRun]_vars

----------------------------------------------------------------------------
(* Properties of run_scenario and of the scenario loop *)

\* 'cap-up' per process as the workbook has it
FileCap(x) == Col(x["Process"], "cap-up")

\* 'cap-up' per process as the scenario of that name is meant to leave it: the
\* workbook's values, with the two Node_2 plants scaled once for
\* scenario_Node_2_process_caps
ScenarioCap(x, sce) ==
    IF sce = "scenario_base" THEN FileCap(x)
    ELSE [r \in DOMAIN FileCap(x) |->
             IF r = Node2Gas THEN FileCap(x)[r] \div 2
             ELSE IF r = Node2Biomass THEN FileCap(x)[r] \div 4
             ELSE FileCap(x)[r]]

IsPrefix(s, t) == Len(s) <= Len(t) /\ s = SubSeq(t, 1, Len(s))

\* the order of steps that C5 states
StatedOrder ==
    <<"read_excel", "scenario", "validate_input", "create_model", "solve",
      "save", "report", "result_figures">>

\* the steps of the current run that were entered: those that returned and the
\* one that raised
Entered == Range(log) \cup (IF failed = "" THEN {} ELSE {failed})

\* C5: in every execution of run_scenario the steps that returned are a prefix of
\* read, scenario, validate, create, solve, save, report, figures; the step that
\* runs next (or raised) is the one right after that prefix; validate_input is
\* given the data as the scenario function left it; and an output file (h5, xlsx,
\* figures) exists only if the step that writes it was entered, so none is
\* written once an earlier step has raised.
C5_StepOrder ==
    si >= 1 =>
        /\ IsPrefix(log, StatedOrder)
        /\ rpc \in Range(StatedOrder) => rpc = StatedOrder[Len(log) + 1]
        /\ failed # "" => (rpc = "raised" /\ failed = StatedOrder[Len(log) + 1])
        /\ rpc = "return" => log = StatedOrder
        /\ "validate_input" \in Entered =>
               Col(validated, "cap-up") = ScenarioCap(xls, scenarios[si])
        /\ \A s \in {"save", "report", "result_figures"} :
               output_of(s) \in written => s \in Entered

\* C5 witness: a run stopped by the report step after save had written its file
C5_Witness ==
    /\ rpc = "raised"
    /\ failed = "report"
    /\ "h5" \in written
    /\ "figures" \notin written
    /\ scenarios[si] = "scenario_Node_2_process_caps"

\* C9: the model input of every scenario run is the workbook's data changed by
\* that scenario alone, whatever ran before it in the list.
C9_ScenarioIsolation ==
    \A i \in DOMAIN model_input :
        Col(model_input[i].process, "cap-up")
            = ScenarioCap(xls, model_input[i].scenario)

\* C9 witness: the base scenario's model was created after the cap-scaling
\* scenario had run
C9_Witness ==
    /\ Len(model_input) = 2
    /\ model_input[1].scenario = "scenario_Node_2_process_caps"
    /\ model_input[2].scenario = "scenario_base"
    /\ Col(model_input[1].process, "cap-up") # Col(model_input[2].process, "cap-up")

----------------------------------------------------------------------------
(* comp.py.  A file name is a sequence of tokens; no token is a prefix of      *)
(* another and none of the patterns the code searches for can straddle two     *)
(* tokens, so str operations act on whole tokens.                              *)

\* the tokens, in the order of the strings they stand for
Tokens == <<" ", ".h5", ".xlsx", "/", "_", "base", "caps", "result", "scenario", "x">>

TokenRank(t) == CHOOSE i \in DOMAIN Tokens : Tokens[i] = t

\* s < t for str
RECURSIVE StrLess(_, _)
StrLess(s, t) ==
    IF t = <<>> THEN FALSE
    ELSE IF s = <<>> THEN TRUE
    ELSE IF Head(s) = Head(t) THEN StrLess(Tail(s), Tail(t))
    ELSE TokenRank(Head(s)) < TokenRank(Head(t))

\* the list with x inserted after the last element that is not greater
RECURSIVE InsertStr(_, _)
InsertStr(l, x) ==
    IF l = <<>> THEN <<x>>
    ELSE IF StrLess(x, Head(l)) THEN <<x>> \o l
    ELSE <<Head(l)>> \o InsertStr(Tail(l), x)

\* sorted(S) for a set of str
RECURSIVE sorted(_)
sorted(S) ==
    IF S = {} THEN <<>>
    ELSE LET x == CHOOSE y \in S : TRUE
         IN  InsertStr(sorted(S \ {x}), x)

\* list(reversed(l))
reversed(l) == [i \in DOMAIN l |-> l[Len(l) + 1 - i]]

\* str.replace(old, new): leftmost occurrences, not overlapping
RECURSIVE replace(_, _, _)
replace(str, old, new) ==
    IF Len(str) < Len(old) THEN str
    ELSE IF SubSeq(str, 1, Len(old)) = old
    THEN new \o replace(SubSeq(str, Len(old) + 1, Len(str)), old, new)
    ELSE <<Head(str)>> \o replace(Tail(str), old, new)

\* os.path.basename: what follows the last '/'
RECURSIVE basename(_)
basename(path) ==
    IF \A i \in DOMAIN path : path[i] # "/" THEN path
    ELSE basename(Tail(path))

\* os.path.join(folder, name)
path_join(folder, name) == folder \o <<"/">> \o name

\* whether a file name matches 'scenario_*.xlsx'
MatchesPattern(name) ==
    /\ Len(name) >= 3
    /\ SubSeq(name, 1, 2) = <<"scenario", "_">>
    /\ name[Len(name)] = ".xlsx"

\* glob_result_files(folder_name) in a folder that holds the files `names`
glob_result_files(folder, names) ==
    sorted({path_join(folder, n) : n \in {m \in names : MatchesPattern(m)}})

\* lines 107-112: the scenario name derived from one result file
scenario_name(rf) ==
    replace(replace(replace(basename(rf), <<"_">>, <<" ">>), <<".xlsx">>, <<>>),
            <<"scenario", " ">>, <<>>)

\* list.index(x): position of the first x, 0 for ValueError
index_of(l, x) ==
    LET hits == {i \in DOMAIN l : l[i] = x}
    IN  IF hits = {} THEN 0 ELSE Min(hits)

\* l.append(l.pop(i))
pop_append(l, i) ==
    [j \in DOMAIN l |-> IF j < i THEN l[j] ELSE IF j < Len(l) THEN l[j + 1] ELSE l[i]]

\* lines 114-120: the try block; [result_files, scenario_names]
reorder_base(files, names) ==
    LET base_scenario == index_of(names, <<"base">>)
    IN  IF base_scenario = 0
        THEN [result_files |-> files, scenario_names |-> names]
        ELSE [result_files |-> pop_append(files, base_scenario),
              scenario_names |-> pop_append(names, base_scenario)]

\* the result directory given on the command line
ResultFolder == <<"result">>

\* the file names a generated result directory is made of
CandidateFiles ==
    {<<"scenario", "_", "base", ".xlsx">>,
     <<"scenario", "_", "caps", ".xlsx">>,
     <<"scenario", "_", "x", ".xlsx">>,
     <<"scenario", "_", "base", "_", "x", ".xlsx">>,
     <<"scenario", "_", "scenario", "_", "base", ".xlsx">>,
     <<"scenario", "_", "base", ".h5">>,
     <<"base", ".xlsx">>}

InitCompare ==
    /\ IdleInput /\ IdleSplit /\ IdleRun /\ IdleLegend /\ IdleRecent
    /\ directory \in SUBSET CandidateFiles
    /\ result_files = <<>>
    /\ scenario_names = <<>>
    /\ cpc = "glob"

compareFrame == <<inputVars, splitVars, runVars, legendVars, recentVars>>

\* __main__, lines 254-259: compare_scenarios(list(reversed(result_files)), ...)
GlobResultFiles ==
    /\ cpc = "glob"
    /\ result_files' = reversed(glob_result_files(ResultFolder, directory))
    /\ cpc' = "names"
    /\ UNCHANGED <<directory, scenario_names>>
    /\ UNCHANGED compareFrame

\* lines 107-112
DeriveScenarioNames ==
    /\ cpc = "names"
    /\ scenario_names' = [i \in DOMAIN result_files |-> scenario_name(result_files[i])]
    /\ cpc' = "reorder"
    /\ UNCHANGED <<directory, result_files>>
    /\ UNCHANGED compareFrame

\* lines 114-120
ReorderBase ==
    /\ cpc = "reorder"
    /\ LET r == reorder_base(result_files, scenario_names)
       IN  /\ result_files' = r.result_files
           /\ scenario_names' = r.scenario_names
    /\ cpc' = "read"
    /\ UNCHANGED directory
    /\ UNCHANGED compareFrame

\* lines 122-243: the files are read and plotted in the order of the two lists,
\* which are not changed any more
ReadAndReport ==
    /\ cpc = "read"
    /\ cpc' = "done"
    /\ UNCHANGED <<directory, result_files, scenario_names>>
    /\ UNCHANGED compareFrame

NextCompare ==
    \/ GlobResultFiles
    \/ DeriveScenarioNames
    \/ ReorderBase
    \/ ReadAndReport

SpecCompare == InitCompare /\ [][NextCompare]_vars

\* the lists as they were before the reordering step
FilesBefore == reversed(glob_result_files(ResultFolder, directory))
NamesBefore == [i \in DOMAIN FilesBefore |-> scenario_name(FilesBefore[i])]

\* l without its i-th element
Without(l, i) == [j \in 1..(Len(l) - 1) |-> IF j < i THEN l[j] ELSE l[j + 1]]

\* C7, as stated: when one of the derived names is 'base', after the reordering
\* step that scenario and its result file are at index 0 and the other scenarios
\* keep their relative order; when no name is 'base' both lists are unchanged.
C7_BaseFirst ==
    cpc \in {"read", "done"} =>
        LET b == index_of(NamesBefore, <<"base">>)
        IN  IF b = 0
            THEN result_files = FilesBefore /\ scenario_names = NamesBefore
            ELSE /\ scenario_names = <<NamesBefore[b]>> \o Without(NamesBefore, b)
                 /\ result_files = <<FilesBefore[b]>> \o Without(FilesBefore, b)

\* what the code does: the base scenario is moved to the end of both lists
BaseLast ==
    cpc \in {"read", "done"} =>
        LET b == index_of(NamesBefore, <<"base">>)
        IN  IF b = 0
            THEN result_files = FilesBefore /\ scenario_names = NamesBefore
            ELSE /\ scenario_names = Without(NamesBefore, b) \o <<NamesBefore[b]>>
                 /\ result_files = Without(FilesBefore, b) \o <<FilesBefore[b]>>

----------------------------------------------------------------------------
(* deduplicate_legend.  A label is a number whose order is the order of the   *)
(* string it stands for; a handle is an opaque object.                        *)

\* longest generated legend
MaxLegend == 3

LegendLabels == {1, 2, 3}
LegendHandles == {"line", "bar"}

\* lines 53-58: the pairs <<label, handle>> of the first occurrence of every
\* label, in input order; zip stops at the shorter list
RECURSIVE first_occurrences(_, _, _)
first_occurrences(hs, ls, seen) ==
    IF hs = <<>> \/ ls = <<>> THEN <<>>
    ELSE IF Head(ls) \in seen THEN first_occurrences(Tail(hs), Tail(ls), seen)
    ELSE <<<<Head(ls), Head(hs)>>>>
             \o first_occurrences(Tail(hs), Tail(ls), seen \cup {Head(ls)})

\* the pair p inserted into a list sorted by label; labels are distinct, so the
\* handles are never compared
RECURSIVE InsertPair(_, _)
InsertPair(l, p) ==
    IF l = <<>> THEN <<p>>
    ELSE IF p[1] < Head(l)[1] THEN <<p>> \o l
    ELSE <<Head(l)>> \o InsertPair(Tail(l), p)

\* sorted(zip(new_labels, new_handles))
RECURSIVE sorted_pairs(_)
sorted_pairs(l) ==
    IF l = <<>> THEN <<>>
    ELSE InsertPair(sorted_pairs(SubSeq(l, 1, Len(l) - 1)), l[Len(l)])

\* deduplicate_legend(handles, labels): [exc, handles, labels].  With nothing to
\* sort, zip(*[]) is empty and unpacking it into two names raises ValueError.
deduplicate_legend(hs, ls) ==
    LET pairs == sorted_pairs(first_occurrences(hs, ls, {}))
    IN  IF pairs = <<>>
        THEN [exc |-> "ValueError", handles |-> <<>>, labels |-> <<>>]
        ELSE [exc |-> "",
              handles |-> [i \in DOMAIN pairs |-> pairs[i][2]],
              labels |-> [i \in DOMAIN pairs |-> pairs[i][1]]]

InitLegend ==
    /\ IdleInput /\ IdleSplit /\ IdleRun /\ IdleCompare /\ IdleRecent
    /\ \E n \in 0..MaxLegend :
           /\ handles \in [1..n -> LegendHandles]
           /\ labels \in [1..n -> LegendLabels]
    /\ legend_out = [done |-> FALSE, exc |-> "", handles |-> <<>>, labels |-> <<>>]

\* deduplicate_legend(handles, labels)
DeduplicateLegend ==
    /\ ~legend_out.done
    /\ LET r == deduplicate_legend(handles, labels)
       IN  legend_out' = [done |-> TRUE, exc |-> r.exc,
                          handles |-> r.handles, labels |-> r.labels]
    /\ UNCHANGED <<handles, labels>>
    /\ UNCHANGED <<inputVars, splitVars, runVars, compVars, recentVars>>

NextLegend == DeduplicateLegend

SpecLegend == InitLegend /\ [][NextLegend]_vars

\* the returned lists are the deduplicated, sorted legend of the input
LegendResult ==
    /\ legend_out.exc = ""
    /\ Len(legend_out.handles) = Len(legend_out.labels)
    /\ \A i, j \in DOMAIN legend_out.labels :
           i < j => legend_out.labels[i] < legend_out.labels[j]
    /\ Range(legend_out.labels) = Range(labels)
    /\ \A i \in DOMAIN legend_out.labels :
           legend_out.handles[i] = handles[index_of(labels, legend_out.labels[i])]

\* C6, as stated: for every pair of equal-length lists, empty ones included,
\* deduplicate_legend returns two lists of equal length without a repeated label,
\* with the labels of the input, each paired with the handle of its first
\* occurrence, in ascending order.
C6_Deduplicated == legend_out.done => LegendResult

\* what does hold: the same for every pair of non-empty lists
DeduplicatedNonEmpty == (legend_out.done /\ labels # <<>>) => LegendResult

----------------------------------------------------------------------------
(* get_most_recent_entry.  search_dir maps the name of each entry of the      *)
(* directory to its modification time.                                        *)

\* largest generated modification time
MaxMtime == 2

EntryNames == {<<"x">>, <<"base">>, <<"caps">>, <<".", "x">>}

\* glob '*' does not match a name that begins with a dot
Hidden(name) == Head(name) = "."

\* the lists glob.glob(os.path.join(search_dir, '*')) may return: the entries
\* that match, in the arbitrary order of the directory listing
glob_star(dir) ==
    LET match == {n \in DOMAIN dir : ~Hidden(n)}
    IN  {l \in [1..Cardinality(match) -> match] : Range(l) = match}

\* entries.sort(key=os.path.getmtime): stable, ascending
RECURSIVE InsertByMtime(_, _, _)
InsertByMtime(l, e, dir) ==
    IF l = <<>> THEN <<e>>
    ELSE IF dir[e] < dir[Head(l)] THEN <<e>> \o l
    ELSE <<Head(l)>> \o InsertByMtime(Tail(l), e, dir)

RECURSIVE sort_by_mtime(_, _)
sort_by_mtime(l, dir) ==
    IF l = <<>> THEN <<>>
    ELSE InsertByMtime(sort_by_mtime(SubSeq(l, 1, Len(l) - 1), dir), l[Len(l)], dir)

\* a slip in line 26: the first element of the sorted list is returned
most_recent_of_first(entries, dir) ==
    LET s == sort_by_mtime(entries, dir)
    IN  IF s = <<>> THEN [exc |-> "IndexError", entry |-> <<>>]
        ELSE [exc |-> "", entry |-> s[1]]

\* lines 25-26 on the list glob returned: [exc, entry]; entries[-1] of an empty
\* list raises IndexError
most_recent_of(entries, dir) ==
    LET s == sort_by_mtime(entries, dir)
    IN  IF s = <<>> THEN [exc |-> "IndexError", entry |-> <<>>]
        ELSE [exc |-> "", entry |-> s[Len(s)]]

InitRecent ==
    /\ IdleInput /\ IdleSplit /\ IdleRun /\ IdleLegend /\ IdleCompare
    /\ \E present \in SUBSET EntryNames : search_dir \in [present -> 1..MaxMtime]
    /\ recent_out = [done |-> FALSE, exc |-> "", entry |-> <<>>]

\* get_most_recent_entry(search_dir)
GetMostRecentEntry ==
    /\ ~recent_out.done
    /\ \E entries \in glob_star(search_dir) :
           LET r == most_recent_of(entries, search_dir)
           IN  recent_out' = [done |-> TRUE, exc |-> r.exc, entry |-> r.entry]
    /\ UNCHANGED search_dir
    /\ UNCHANGED <<inputVars, splitVars, runVars, legendVars, compVars>>

NextRecent == GetMostRecentEntry

SpecRecent == InitRecent /\ [][NextRecent]_vars

Visible == {e \in DOMAIN search_dir : ~Hidden(e)}

====
